---- MODULE Spec2Model ----
(***************************************************************************)
(* Model of the job engine of Remote-Linux-Worker:                         *)
(*   src/src/lib/jobs.rs        Job, Job::new_command, Job::stream_output  *)
(*   src/src/lib/processing.rs  execute_command                            *)
(*                                                                         *)
(* One Job is shared by                                                    *)
(*   - the task running new_command            (task "cmd"),               *)
(*   - the thread running execute_command      (task "exec"; it also runs  *)
(*     the stdout read loop),                                              *)
(*   - the task spawned for the stderr loop    (task "errloop"),           *)
(*   - stream_output calls                     (tasks of Streamers),       *)
(*   - the caller of tests::run_script that reads the pid and delivers     *)
(*     signal 9 to the process                 (task "killer"),            *)
(*   - the operating system's process          (Proc* actions).            *)
(*                                                                         *)
(* A tokio Mutex is an owner variable: "none" or the task holding it.      *)
(* An mpsc channel is its queue plus one flag per sender and receiver       *)
(* telling whether that end is still alive.                                *)
(*                                                                         *)
(* Environment assumptions: reads of the pipes never fail (the loops of     *)
(* processing.rs:70,84 leave on Err exactly as on end of stream; the model *)
(* only produces end of stream), Child::id() is Some right after spawn,    *)
(* the piped stdout/stderr handles are present, and wait() succeeds once   *)
(* the process has exited.                                                 *)
(***************************************************************************)
EXTENDS Integers, Sequences, FiniteSets, TLC

\* ---------------------------------------------------------------- bounds

\* Most bytes the process writes, on both streams together.
MaxBytes == 3

\* Most new_command calls made on one Job.
MaxRuns == 2

\* Stands for OUTPUT_CHUNK_SIZE_BYTES = 1024 (processing.rs:16), scaled to
\* the byte counts of the model: a read returns at most this many bytes.
OUTPUT_CHUNK_SIZE_BYTES == 2

\* The signal `kill -9` delivers (jobs.rs:173).
SIGKILL == 9

\* The process id the operating system gives the spawned process,
\* Child::id() (processing.rs:44-46).
ProcId == 4242

Streamers == {"s1", "s2"}

Streams == {"stdout", "stderr"}

\* Exit codes the process may choose.
ExitCodes == {0, 1}

\* enum CommandType (jobs.rs:131-136)
CommandType == {"Start", "Stop", "Stream", "Status"}

\* Commands: an executable that exists, and one the OS cannot spawn.
Commands == {"good", "bad"}

\* --------------------------------------------------------------- state

VARIABLES
    command,        \* argument of new_command
    command_type,   \* argument of new_command
    status,         \* Job.status   <<"None">>, <<"Running">>, <<"ExitCode", c>>, <<"Signal", s>>
    output,         \* Job.output   sequence of bytes
    pid,            \* Job.pid      <<>> is None, <<p>> is Some(p)
    pidLock,        \* owner of Job.pid's mutex
    statusLock,     \* owner of Job.status's mutex
    outputLock,     \* owner of Job.output's mutex
    pc,             \* position of every task
    pidChan,        \* queue of the pid channel
    tx_pid,         \* sender of the pid channel alive
    rx_pid,         \* receiver of the pid channel alive
    chan,           \* queue of the output channel (a sequence of chunks)
    tx_output,      \* execute_command's sender alive
    tx_output_err,  \* the stderr loop's clone of the sender alive
    rx_output,      \* receiver of the output channel alive
    rec,            \* the chunk new_command has received and not yet pushed
    execResult,     \* result of execute_command: <<"Pending">>, <<"Err">>, <<"Ok", exit status>>
    errResult,      \* result of the stderr task: "Pending", "Ok", "Err"
    cmdResult,      \* result of new_command: "Pending", "Ok", "Err"
    proc,           \* the OS process: "none", "alive", "exited"
    exitStatus,     \* <<>> while not exited, else <<"code", c>> or <<"signal", s>>
    pipe,           \* bytes written by the process and not yet read, per stream
    written,        \* history: every byte the process wrote, per stream
    readChunks,     \* history: the chunks each read loop has read, in order
    knownPid,       \* the pid the killer read from the Job
    killed,         \* history: signal 9 was delivered to the live process
    read_idx,       \* stream_output's read_idx, per call
    yielded,        \* history: the bytes a stream_output call has printed
    started,        \* history: Job.status when the stream_output call started
    runs,           \* number of new_command calls made on the Job
    sendFailed      \* history: the streams whose read loop had a send fail

vars == <<command, command_type, status, output, pid, pidLock, statusLock,
          outputLock, pc, pidChan, tx_pid, rx_pid, chan, tx_output,
          tx_output_err, rx_output, rec, execResult, errResult, cmdResult,
          proc, exitStatus, pipe, written, readChunks, knownPid, killed,
          read_idx, yielded, started, runs, sendFailed>>

Tasks == {"cmd", "exec", "errloop", "killer"} \cup Streamers

\* ------------------------------------------------------------- helpers

None == <<"None">>
Running == <<"Running">>
ExitCode(c) == <<"ExitCode", c>>
Signal(s) == <<"Signal", s>>

IsTerminal(st) == st[1] \in {"ExitCode", "Signal"}

Min(a, b) == IF a < b THEN a ELSE b

\* The first n elements of s, and s without them.
Take(s, n) == SubSeq(s, 1, n)
Drop(s, n) == SubSeq(s, n + 1, Len(s))

IsPrefix(s, t) == Len(s) <= Len(t) /\ Take(t, Len(s)) = s

\* The k-th byte the process writes on a stream: all bytes are distinct, so
\* a dropped, repeated or reordered byte changes the sequence.
ByteOf(stream, k) == IF stream = "stdout" THEN k ELSE MaxBytes + k

\* Job::new()  (jobs.rs:33-39), with every task at its start.
Init ==
    /\ command \in Commands
    /\ command_type \in CommandType
    /\ status = None
    /\ output = <<>>
    /\ pid = <<>>
    /\ pidLock = "none"
    /\ statusLock = "none"
    /\ outputLock = "none"
    /\ pc = [t \in Tasks |-> "idle"]
    /\ pidChan = <<>>
    /\ tx_pid = FALSE
    /\ rx_pid = FALSE
    /\ chan = <<>>
    /\ tx_output = FALSE
    /\ tx_output_err = FALSE
    /\ rx_output = FALSE
    /\ rec = <<>>
    /\ execResult = <<"Pending">>
    /\ errResult = "Pending"
    /\ cmdResult = "Pending"
    /\ proc = "none"
    /\ exitStatus = <<>>
    /\ pipe = [s \in Streams |-> <<>>]
    /\ written = [s \in Streams |-> <<>>]
    /\ readChunks = [s \in Streams |-> <<>>]
    /\ knownPid = <<>>
    /\ killed = FALSE
    /\ read_idx = [s \in Streamers |-> 0]
    /\ yielded = [s \in Streamers |-> <<>>]
    /\ started = [s \in Streamers |-> <<"NotStarted">>]
    /\ runs = 0
    /\ sendFailed = {}

\* ----------------------------------------------------- Job::new_command

\* AfterSpawn with the Start branch of jobs.rs:63-69 left out.
AfterSpawnNoStart(ct) == "recv_output"

\* AfterSpawn writing Running without waiting for the pid.
AfterSpawnNoPid(ct) == IF ct = "Start" THEN "lock_status" ELSE "recv_output"

\* jobs.rs:63  if let CommandType::Start = command_type: where new_command
\* goes once the thread is spawned.
AfterSpawn(ct) == IF ct = "Start" THEN "lock_pid" ELSE "recv_output"

\* jobs.rs:55-61: the two channels are created and the thread running
\* execute_command is spawned, whatever command_type is.
NewCommand ==
    /\ pc["cmd"] = "idle"
    /\ tx_pid' = TRUE
    /\ rx_pid' = TRUE
    /\ tx_output' = TRUE
    /\ rx_output' = TRUE
    /\ pc' = [pc EXCEPT !["cmd"] = AfterSpawn(command_type),
                        !["exec"] = "spawn"]
    /\ UNCHANGED <<command, command_type, status, output, pid, pidLock,
                   statusLock, outputLock, pidChan, chan, tx_output_err, rec,
                   execResult, errResult, cmdResult, proc, exitStatus, pipe,
                   written, readChunks, knownPid, killed, read_idx, yielded,
                   started>>
    /\ runs' = runs + 1
    /\ UNCHANGED sendFailed

\* jobs.rs:49-63, called again on the same Job once the run before it is
\* over and has left the status past Unstarted, as tests::run_script calls
\* it for `kill` (jobs.rs:170-178): nothing looks at the Job's status; new
\* channels are created and a new thread and process are started.
NewCommandAgain ==
    /\ pc["cmd"] = "done"
    /\ pc["exec"] = "done"
    /\ pc["errloop"] \in {"idle", "done"}
    /\ status # None
    /\ runs < MaxRuns
    /\ runs' = runs + 1
    /\ command' \in Commands
    /\ tx_pid' = TRUE
    /\ rx_pid' = TRUE
    /\ tx_output' = TRUE
    /\ rx_output' = TRUE
    /\ tx_output_err' = FALSE
    /\ pidChan' = <<>>
    /\ chan' = <<>>
    /\ rec' = <<>>
    /\ execResult' = <<"Pending">>
    /\ errResult' = "Pending"
    /\ cmdResult' = "Pending"
    /\ proc' = "none"
    /\ exitStatus' = <<>>
    /\ pipe' = [s \in Streams |-> <<>>]
    /\ written' = [s \in Streams |-> <<>>]
    /\ readChunks' = [s \in Streams |-> <<>>]
    /\ sendFailed' = {}
    /\ pc' = [pc EXCEPT !["cmd"] = AfterSpawn(command_type),
                        !["exec"] = "spawn",
                        !["errloop"] = "idle"]
    /\ UNCHANGED <<command_type, status, output, pid, pidLock, statusLock,
                   outputLock, knownPid, killed, read_idx, yielded, started>>

\* jobs.rs:64  let mut pid = self.pid.lock().await;
LockPid ==
    /\ pc["cmd"] = "lock_pid"
    /\ pidLock = "none"
    /\ pidLock' = "cmd"
    /\ pc' = [pc EXCEPT !["cmd"] = "recv_pid"]
    /\ UNCHANGED <<command, command_type, status, output, pid, statusLock,
                   outputLock, pidChan, tx_pid, rx_pid, chan, tx_output,
                   tx_output_err, rx_output, rec, execResult, errResult,
                   cmdResult, proc, exitStatus, pipe, written, readChunks,
                   knownPid, killed, read_idx, yielded, started>>
    /\ UNCHANGED <<runs, sendFailed>>

\* jobs.rs:65  *pid = Some(rx_pid.recv()?);
\* recv blocks while the queue is empty and the sender is alive. It fails
\* once the sender is gone with nothing queued; `?` then returns the error
\* from new_command, which drops the pid guard and both receivers.
\* PidDisconnected for a pid sender that is never dropped.
PidNeverDisconnected == FALSE

\* jobs.rs:65  rx_pid.recv()? on an empty channel: an error once the sender,
\* moved into the thread, is dropped (processing.rs:39, 42-48); until then
\* the call blocks.
PidDisconnected == pidChan = <<>> /\ ~tx_pid

\* A guard that does not outlive the statement of line 65.
PidGuardDropped == "none"

\* jobs.rs:64-69: the guard `pid` is a local of the `if let` block, so the
\* pid lock stays with new_command after the write of line 65 and is given
\* back at the closing brace of line 69.
PidGuardAfterRecv == "cmd"

RecvPid ==
    /\ pc["cmd"] = "recv_pid"
    /\ \/ /\ pidChan # <<>>
          /\ pid' = <<Head(pidChan)>>
          /\ pidChan' = Tail(pidChan)
          /\ pidLock' = PidGuardAfterRecv
          /\ pc' = [pc EXCEPT !["cmd"] = "lock_status"]
          /\ UNCHANGED <<rx_pid, rx_output, cmdResult>>
       \/ /\ PidDisconnected
          /\ pidLock' = "none"
          /\ rx_pid' = FALSE
          /\ rx_output' = FALSE
          /\ cmdResult' = "Err"
          /\ pc' = [pc EXCEPT !["cmd"] = "done"]
          /\ UNCHANGED <<pid, pidChan>>
    /\ UNCHANGED <<command, command_type, status, output, statusLock,
                   outputLock, tx_pid, chan, tx_output, tx_output_err, rec,
                   execResult, errResult, proc, exitStatus, pipe, written,
                   readChunks, knownPid, killed, read_idx, yielded,
                   started>>
    /\ UNCHANGED <<runs, sendFailed>>

\* jobs.rs:67-69: the status lock is taken while the pid guard is held,
\* Running is written, and both guards are dropped at the end of the block.
SetRunning ==
    /\ pc["cmd"] = "lock_status"
    /\ statusLock = "none"
    /\ status' = Running
    /\ pidLock' = "none"
    /\ pc' = [pc EXCEPT !["cmd"] = "recv_output"]
    /\ UNCHANGED <<command, command_type, output, pid, statusLock, outputLock,
                   pidChan, tx_pid, rx_pid, chan, tx_output, tx_output_err,
                   rx_output, rec, execResult, errResult, cmdResult, proc,
                   exitStatus, pipe, written, readChunks, knownPid, killed,
                   read_idx, yielded, started>>
    /\ UNCHANGED <<runs, sendFailed>>

\* OutputClosed ending the loop at the first empty queue (try_iter).
OutputClosedOnEmpty == chan = <<>>

\* The iterator of jobs.rs:72 ends when the queue is empty and every sender
\* has been dropped.
OutputClosed == chan = <<>> /\ ~tx_output /\ ~tx_output_err

\* jobs.rs:72  for rec in rx_output: the next element is received, or the
\* loop ends and the receiver is dropped.
RecvOutput ==
    /\ pc["cmd"] = "recv_output"
    /\ \/ /\ chan # <<>>
          /\ rec' = Head(chan)
          /\ chan' = Tail(chan)
          /\ pc' = [pc EXCEPT !["cmd"] = "push"]
          /\ UNCHANGED rx_output
       \/ /\ OutputClosed
          /\ rx_output' = FALSE
          /\ pc' = [pc EXCEPT !["cmd"] = "join"]
          /\ UNCHANGED <<rec, chan>>
    /\ UNCHANGED <<command, command_type, status, output, pid, pidLock,
                   statusLock, outputLock, pidChan, tx_pid, rx_pid, tx_output,
                   tx_output_err, execResult, errResult, cmdResult, proc,
                   exitStatus, pipe, written, readChunks, knownPid, killed,
                   read_idx, yielded, started>>
    /\ UNCHANGED <<runs, sendFailed>>

\* Pushed putting the received element in front of the buffer.
PushedFront(o, r) == r \o o

\* Pushed keeping only the first byte of the received element.
PushedFirstByte(o, r) == Append(o, r[1])

\* The buffer after the received element has been pushed. The channel
\* carries what execute_command sends, a chunk (Sender<Vec<u8>>,
\* processing.rs:31; jobs.rs:55 declares its element as u8), and the element
\* received is pushed whole.
Pushed(o, r) == o \o r

\* PushOutput appending the received element one byte per lock acquisition.
PushOutputByBytes ==
    /\ pc["cmd"] = "push"
    /\ outputLock = "none"
    /\ output' = Append(output, Head(rec))
    /\ rec' = Tail(rec)
    /\ pc' = [pc EXCEPT !["cmd"] = IF Tail(rec) = <<>> THEN "recv_output"
                                                      ELSE "push"]
    /\ UNCHANGED <<command, command_type, status, pid, pidLock, statusLock,
                   outputLock, pidChan, tx_pid, rx_pid, chan, tx_output,
                   tx_output_err, rx_output, execResult, errResult, cmdResult,
                   proc, exitStatus, pipe, written, readChunks, knownPid,
                   killed, read_idx, yielded, started, runs, sendFailed>>

\* jobs.rs:73  self.output.lock().await.push(rec);
\* The guard is a temporary of the statement: lock, push and unlock are one
\* step for every other task.
PushOutput ==
    /\ pc["cmd"] = "push"
    /\ outputLock = "none"
    /\ output' = Pushed(output, rec)
    /\ rec' = <<>>
    /\ pc' = [pc EXCEPT !["cmd"] = "recv_output"]
    /\ UNCHANGED <<command, command_type, status, pid, pidLock, statusLock,
                   outputLock, pidChan, tx_pid, rx_pid, chan, tx_output,
                   tx_output_err, rx_output, execResult, errResult, cmdResult,
                   proc, exitStatus, pipe, written, readChunks, knownPid,
                   killed, read_idx, yielded, started>>
    /\ UNCHANGED <<runs, sendFailed>>

\* TerminalStatus without the signal branch of jobs.rs:82-86.
TerminalStatusCodeOnly(es) == ExitCode(es[2])

\* TerminalStatus reporting a signal the way a shell does, as code 128 + s.
TerminalStatusShell(es) ==
    IF es[1] = "signal" THEN ExitCode(128 + es[2]) ELSE ExitCode(es[2])

\* jobs.rs:73  self.output.lock().await is pending while a stream_output
\* call holds the output lock; the caller drops the future there (its task
\* is aborted or the runtime shuts down). The locals of new_command go with
\* it: rec, and the receivers rx_output and rx_pid with what they queue.
DropNewCommand ==
    /\ pc["cmd"] = "push"
    /\ outputLock # "none"
    /\ rx_output' = FALSE
    /\ rx_pid' = FALSE
    /\ chan' = <<>>
    /\ rec' = <<>>
    /\ cmdResult' = "Dropped"
    /\ pc' = [pc EXCEPT !["cmd"] = "done"]
    /\ UNCHANGED <<command, command_type, status, output, pid, pidLock,
                   statusLock, outputLock, pidChan, tx_pid, tx_output,
                   tx_output_err, execResult, errResult, proc, exitStatus,
                   pipe, written, readChunks, knownPid, killed, read_idx,
                   yielded, started, runs, sendFailed>>

\* jobs.rs:82-93: the status new_command writes for an exit status.
TerminalStatus(es) ==
    IF es[1] = "signal" THEN Signal(es[2]) ELSE ExitCode(es[2])

\* JoinAndFinish recording a failed execute_command as exit code 1.
JoinAndFinishLenient ==
    /\ pc["cmd"] = "join"
    /\ execResult # <<"Pending">>
    /\ statusLock = "none"
    /\ \/ /\ execResult = <<"Err">>
          /\ status' = ExitCode(1)
          /\ cmdResult' = "Err"
       \/ /\ execResult[1] = "Ok"
          /\ status' = TerminalStatus(execResult[2])
          /\ cmdResult' = "Ok"
    /\ rx_pid' = FALSE
    /\ pc' = [pc EXCEPT !["cmd"] = "done"]
    /\ UNCHANGED <<command, command_type, output, pid, pidLock, statusLock,
                   outputLock, pidChan, tx_pid, chan, tx_output,
                   tx_output_err, rx_output, rec, execResult, errResult, proc,
                   exitStatus, pipe, written, readChunks, knownPid, killed,
                   read_idx, yielded, started, runs, sendFailed>>

\* jobs.rs:77-98: join the thread; an error of execute_command is returned
\* by `??`; otherwise the status lock is taken, the terminal status written
\* and Ok returned.
JoinAndFinish ==
    /\ pc["cmd"] = "join"
    /\ execResult # <<"Pending">>
    /\ \/ /\ execResult = <<"Err">>
          /\ cmdResult' = "Err"
          /\ UNCHANGED status
       \/ /\ execResult[1] = "Ok"
          /\ statusLock = "none"
          /\ status' = TerminalStatus(execResult[2])
          /\ cmdResult' = "Ok"
    /\ rx_pid' = FALSE
    /\ pc' = [pc EXCEPT !["cmd"] = "done"]
    /\ UNCHANGED <<command, command_type, output, pid, pidLock, statusLock,
                   outputLock, pidChan, tx_pid, chan, tx_output,
                   tx_output_err, rx_output, rec, execResult, errResult, proc,
                   exitStatus, pipe, written, readChunks, knownPid, killed,
                   read_idx, yielded, started>>
    /\ UNCHANGED <<runs, sendFailed>>

\* ------------------------------------------------------ execute_command

\* processing.rs:34-39  Command::new(command)...spawn()?
\* The OS rejects an executable that does not exist: `?` returns the error,
\* and the senders the thread owns are dropped with it.
Spawn ==
    /\ pc["exec"] = "spawn"
    /\ IF command = "good"
       THEN /\ proc' = "alive"
            /\ pc' = [pc EXCEPT !["exec"] = "send_pid"]
            /\ UNCHANGED <<execResult, tx_pid, tx_output>>
       ELSE /\ execResult' = <<"Err">>
            /\ tx_pid' = FALSE
            /\ tx_output' = FALSE
            /\ pc' = [pc EXCEPT !["exec"] = "done"]
            /\ UNCHANGED proc
    /\ UNCHANGED <<command, command_type, status, output, pid, pidLock,
                   statusLock, outputLock, pidChan, rx_pid, chan,
                   tx_output_err, rx_output, rec, errResult, cmdResult,
                   exitStatus, pipe, written, readChunks, knownPid, killed,
                   read_idx, yielded, started>>
    /\ UNCHANGED <<runs, sendFailed>>

\* processing.rs:42-48: the pid is sent and the sender, moved into the
\* `if let`, is dropped. A send to a dropped receiver is an error returned
\* by `?`.
SendPid ==
    /\ pc["exec"] = "send_pid"
    /\ tx_pid' = FALSE
    /\ IF rx_pid
       THEN /\ pidChan' = Append(pidChan, ProcId)
            /\ pc' = [pc EXCEPT !["exec"] = "setup"]
            /\ UNCHANGED <<execResult, tx_output>>
       ELSE /\ execResult' = <<"Err">>
            /\ tx_output' = FALSE
            /\ pc' = [pc EXCEPT !["exec"] = "done"]
            /\ UNCHANGED pidChan
    /\ UNCHANGED <<command, command_type, status, output, pid, pidLock,
                   statusLock, outputLock, rx_pid, chan, tx_output_err,
                   rx_output, rec, errResult, cmdResult, proc, exitStatus,
                   pipe, written, readChunks, knownPid, killed, read_idx,
                   yielded, started>>
    /\ UNCHANGED <<runs, sendFailed>>

\* processing.rs:50-81: the readers are set up, the sender is cloned and the
\* task of the stderr loop is spawned.
SetupReaders ==
    /\ pc["exec"] = "setup"
    /\ tx_output_err' = TRUE
    /\ pc' = [pc EXCEPT !["exec"] = "read", !["errloop"] = "read"]
    /\ UNCHANGED <<command, command_type, status, output, pid, pidLock,
                   statusLock, outputLock, pidChan, tx_pid, rx_pid, chan,
                   tx_output, rx_output, rec, execResult, errResult,
                   cmdResult, proc, exitStatus, pipe, written, readChunks,
                   knownPid, killed, read_idx, yielded, started>>
    /\ UNCHANGED <<runs, sendFailed>>

\* reader.read(&mut buf) on a pipe holding p: the bytes it returns.
ReadChunk(p) == Take(p, Min(OUTPUT_CHUNK_SIZE_BYTES, Len(p)))

\* A read returns 0 (end of stream) once the pipe is empty and its writer,
\* the process, is gone.
EndOfStream(s) == pipe[s] = <<>> /\ proc = "exited"

\* processing.rs:83-93, one iteration of the stdout loop: a chunk is read
\* and sent, or the loop ends at end of stream. A failed send returns the
\* error from execute_command, leaving the stderr task running.
ReadStdout ==
    /\ pc["exec"] = "read"
    /\ \/ /\ pipe["stdout"] # <<>>
          /\ pipe' = [pipe EXCEPT !["stdout"] = Drop(@, Len(ReadChunk(@)))]
          /\ readChunks' = [readChunks EXCEPT
                              !["stdout"] = Append(@, ReadChunk(pipe["stdout"]))]
          /\ IF rx_output
             THEN /\ chan' = Append(chan, ReadChunk(pipe["stdout"]))
                  /\ UNCHANGED <<pc, execResult, tx_output, sendFailed>>
             ELSE /\ execResult' = <<"Err">>
                  /\ tx_output' = FALSE
                  /\ pc' = [pc EXCEPT !["exec"] = "done"]
                  /\ sendFailed' = sendFailed \cup {"stdout"}
                  /\ UNCHANGED chan
       \/ /\ EndOfStream("stdout")
          /\ pc' = [pc EXCEPT !["exec"] = "await_err"]
          /\ UNCHANGED <<pipe, readChunks, chan, execResult, tx_output,
                       sendFailed>>
    /\ UNCHANGED <<command, command_type, status, output, pid, pidLock,
                   statusLock, outputLock, pidChan, tx_pid, rx_pid,
                   tx_output_err, rx_output, rec, errResult, cmdResult, proc,
                   exitStatus, written, knownPid, killed, read_idx, yielded,
                   started>>
    /\ UNCHANGED runs

\* processing.rs:68-81, one iteration of the stderr loop, in its own task.
\* The task ends at end of stream or at a failed send; its clone of the
\* sender is dropped when it ends.
ReadStderr ==
    /\ pc["errloop"] = "read"
    /\ \/ /\ pipe["stderr"] # <<>>
          /\ pipe' = [pipe EXCEPT !["stderr"] = Drop(@, Len(ReadChunk(@)))]
          /\ readChunks' = [readChunks EXCEPT
                              !["stderr"] = Append(@, ReadChunk(pipe["stderr"]))]
          /\ IF rx_output
             THEN /\ chan' = Append(chan, ReadChunk(pipe["stderr"]))
                  /\ UNCHANGED <<pc, errResult, tx_output_err, sendFailed>>
             ELSE /\ errResult' = "Err"
                  /\ tx_output_err' = FALSE
                  /\ pc' = [pc EXCEPT !["errloop"] = "done"]
                  /\ sendFailed' = sendFailed \cup {"stderr"}
                  /\ UNCHANGED chan
       \/ /\ EndOfStream("stderr")
          /\ errResult' = "Ok"
          /\ tx_output_err' = FALSE
          /\ pc' = [pc EXCEPT !["errloop"] = "done"]
          /\ UNCHANGED <<pipe, readChunks, chan, sendFailed>>
    /\ UNCHANGED <<command, command_type, status, output, pid, pidLock,
                   statusLock, outputLock, pidChan, tx_pid, rx_pid, tx_output,
                   rx_output, rec, execResult, cmdResult, proc, exitStatus,
                   written, knownPid, killed, read_idx, yielded, started>>
    /\ UNCHANGED runs

\* processing.rs:50-64: taking the stdout or the stderr handle of the child
\* fails; `?` returns the error and the thread drops its sender. The pid
\* has been sent by then.
SetupFails ==
    /\ pc["exec"] = "setup"
    /\ execResult' = <<"Err">>
    /\ tx_output' = FALSE
    /\ pc' = [pc EXCEPT !["exec"] = "done"]
    /\ UNCHANGED <<command, command_type, status, output, pid, pidLock,
                   statusLock, outputLock, pidChan, tx_pid, rx_pid, chan,
                   tx_output_err, rx_output, rec, errResult, cmdResult, proc,
                   exitStatus, pipe, written, readChunks, knownPid, killed,
                   read_idx, yielded, started, runs, sendFailed>>

\* processing.rs:103  output.wait().await? fails with an io error: the
\* error is returned and the thread drops its sender.
WaitFails ==
    /\ pc["exec"] = "wait"
    /\ execResult' = <<"Err">>
    /\ tx_output' = FALSE
    /\ pc' = [pc EXCEPT !["exec"] = "done"]
    /\ UNCHANGED <<command, command_type, status, output, pid, pidLock,
                   statusLock, outputLock, pidChan, tx_pid, rx_pid, chan,
                   tx_output_err, rx_output, rec, errResult, cmdResult, proc,
                   exitStatus, pipe, written, readChunks, knownPid, killed,
                   read_idx, yielded, started, runs, sendFailed>>

\* processing.rs:95-100  thread.await: waits for the stderr task. Only a
\* JoinError (a panic of the task) is an error here; the task does not
\* panic, and the Result it returns is not looked at.
AwaitStderr ==
    /\ pc["exec"] = "await_err"
    /\ pc["errloop"] = "done"
    /\ pc' = [pc EXCEPT !["exec"] = "wait"]
    /\ UNCHANGED <<command, command_type, status, output, pid, pidLock,
                   statusLock, outputLock, pidChan, tx_pid, rx_pid, chan,
                   tx_output, tx_output_err, rx_output, rec, execResult,
                   errResult, cmdResult, proc, exitStatus, pipe, written,
                   readChunks, knownPid, killed, read_idx, yielded,
                   started>>
    /\ UNCHANGED <<runs, sendFailed>>

\* processing.rs:103-104  output.wait().await: returns the exit status once
\* the process has exited; the thread ends and drops its sender.
Wait ==
    /\ pc["exec"] = "wait"
    /\ proc = "exited"
    /\ execResult' = <<"Ok", exitStatus>>
    /\ tx_output' = FALSE
    /\ pc' = [pc EXCEPT !["exec"] = "done"]
    /\ UNCHANGED <<command, command_type, status, output, pid, pidLock,
                   statusLock, outputLock, pidChan, tx_pid, rx_pid, chan,
                   tx_output_err, rx_output, rec, errResult, cmdResult, proc,
                   exitStatus, pipe, written, readChunks, knownPid, killed,
                   read_idx, yielded, started>>
    /\ UNCHANGED <<runs, sendFailed>>

\* ---------------------------------------------------------- the process

\* The process writes its next byte on one of its streams.
ProcWrite(s) ==
    /\ proc = "alive"
    /\ Len(written["stdout"]) + Len(written["stderr"]) < MaxBytes
    /\ pipe' = [pipe EXCEPT ![s] = Append(@, ByteOf(s, Len(written[s]) + 1))]
    /\ written' = [written EXCEPT
                      ![s] = Append(@, ByteOf(s, Len(written[s]) + 1))]
    /\ UNCHANGED <<command, command_type, status, output, pid, pidLock,
                   statusLock, outputLock, pc, pidChan, tx_pid, rx_pid, chan,
                   tx_output, tx_output_err, rx_output, rec, execResult,
                   errResult, cmdResult, proc, exitStatus, readChunks, knownPid,
                   killed, read_idx, yielded, started>>
    /\ UNCHANGED <<runs, sendFailed>>

\* The process exits by itself with an exit code.
ProcExit(c) ==
    /\ proc = "alive"
    /\ proc' = "exited"
    /\ exitStatus' = <<"code", c>>
    /\ UNCHANGED <<command, command_type, status, output, pid, pidLock,
                   statusLock, outputLock, pc, pidChan, tx_pid, rx_pid, chan,
                   tx_output, tx_output_err, rx_output, rec, execResult,
                   errResult, cmdResult, pipe, written, readChunks, knownPid,
                   killed, read_idx, yielded, started>>
    /\ UNCHANGED <<runs, sendFailed>>

\* ------------------------------------------- the caller that kills the job

\* jobs.rs:169  arc2.pid.lock().await.expect("no pid"): the caller takes
\* the pid lock and reads the pid; with no pid it panics and sends nothing.
ReadPid ==
    /\ pc["killer"] = "idle"
    /\ pidLock = "none"
    /\ IF pid = <<>>
       THEN /\ pc' = [pc EXCEPT !["killer"] = "done"]
            /\ UNCHANGED knownPid
       ELSE /\ knownPid' = pid
            /\ pc' = [pc EXCEPT !["killer"] = "kill"]
    /\ UNCHANGED <<command, command_type, status, output, pid, pidLock,
                   statusLock, outputLock, pidChan, tx_pid, rx_pid, chan,
                   tx_output, tx_output_err, rx_output, rec, execResult,
                   errResult, cmdResult, proc, exitStatus, pipe, written,
                   readChunks, killed, read_idx, yielded, started>>
    /\ UNCHANGED <<runs, sendFailed>>

\* jobs.rs:171-175  kill -9 <pid>: signal 9 ends a live process; sent to a
\* process that has already exited it is discarded.
Kill9 ==
    /\ pc["killer"] = "kill"
    /\ pc' = [pc EXCEPT !["killer"] = "done"]
    /\ IF proc = "alive"
       THEN /\ proc' = "exited"
            /\ exitStatus' = <<"signal", SIGKILL>>
            /\ killed' = TRUE
       ELSE UNCHANGED <<proc, exitStatus, killed>>
    /\ UNCHANGED <<command, command_type, status, output, pid, pidLock,
                   statusLock, outputLock, pidChan, tx_pid, rx_pid, chan,
                   tx_output, tx_output_err, rx_output, rec, execResult,
                   errResult, cmdResult, pipe, written, readChunks, knownPid,
                   read_idx, yielded, started>>
    /\ UNCHANGED <<runs, sendFailed>>

\* --------------------------------------------------- Job::stream_output

\* jobs.rs:102  let mut read_idx: usize = 0;
\* A call is made on a Job that new_command has been invoked on, as in
\* tests::run_script (jobs.rs:149-164): before that the Job is Job::new(),
\* which a call sees exactly as it sees the Job until the pid arrives.
StreamStart(s) ==
    /\ pc[s] = "idle"
    /\ pc["cmd"] # "idle"
    /\ read_idx' = [read_idx EXCEPT ![s] = 0]
    /\ started' = [started EXCEPT ![s] = status]
    /\ pc' = [pc EXCEPT ![s] = "check"]
    /\ UNCHANGED <<command, command_type, status, output, pid, pidLock,
                   statusLock, outputLock, pidChan, tx_pid, rx_pid, chan,
                   tx_output, tx_output_err, rx_output, rec, execResult,
                   errResult, cmdResult, proc, exitStatus, pipe, written,
                   readChunks, knownPid, killed, yielded>>
    /\ UNCHANGED <<runs, sendFailed>>

\* StillRunning taking every status past Unstarted as still running.
StillRunningUntilReset(st) == st # None

\* jobs.rs:103-106  matches!(*status, Some(ProcessStatus::Running(true)))
StillRunning(st) == st = Running

\* jobs.rs:103-106: the loop condition takes the status lock, reads the
\* status and drops the guard before the body runs.
CheckStatus(s) ==
    /\ pc[s] = "check"
    /\ statusLock = "none"
    /\ pc' = [pc EXCEPT ![s] = IF StillRunning(status) THEN "poll"
                                                        ELSE "drain_lock"]
    /\ UNCHANGED <<command, command_type, status, output, pid, pidLock,
                   statusLock, outputLock, pidChan, tx_pid, rx_pid, chan,
                   tx_output, tx_output_err, rx_output, rec, execResult,
                   errResult, cmdResult, proc, exitStatus, pipe, written,
                   readChunks, knownPid, killed, read_idx, yielded,
                   started>>
    /\ UNCHANGED <<runs, sendFailed>>

\* ByteAt reading the newest byte of the buffer instead of o[read_idx].
ByteAtLast(o, i) == o[Len(o)]

\* o[read_idx] of jobs.rs:113,125 (read_idx counts from 0).
ByteAt(o, i) == o[i + 1]

\* HasUnread off by one: the last byte of the buffer is never read.
HasUnreadButLast(o, i) == i + 1 < Len(o)

\* jobs.rs:111,124  read_idx < o.len()
HasUnread(o, i) == i < Len(o)

\* PollOutput taking the byte it prints out of the buffer, as a queue would.
PollOutputConsuming(s) ==
    /\ pc[s] = "poll"
    /\ outputLock = "none"
    /\ IF output # <<>>
       THEN /\ yielded' = [yielded EXCEPT ![s] = Append(@, Head(output))]
            /\ output' = Tail(output)
       ELSE UNCHANGED <<yielded, output>>
    /\ pc' = [pc EXCEPT ![s] = "check"]
    /\ UNCHANGED <<command, command_type, status, pid, pidLock, statusLock,
                   outputLock, pidChan, tx_pid, rx_pid, chan, tx_output,
                   tx_output_err, rx_output, rec, execResult, errResult,
                   cmdResult, proc, exitStatus, pipe, written, readChunks,
                   knownPid, killed, read_idx, started, runs, sendFailed>>

\* jobs.rs:107-117, the body of the polling loop: under the output lock, one
\* unread byte is printed if there is one; the guard is dropped at the end
\* of the body.
PollOutput(s) ==
    /\ pc[s] = "poll"
    /\ outputLock = "none"
    /\ IF HasUnread(output, read_idx[s])
       THEN /\ yielded' = [yielded EXCEPT
                              ![s] = Append(@, ByteAt(output, read_idx[s]))]
            /\ read_idx' = [read_idx EXCEPT ![s] = @ + 1]
       ELSE UNCHANGED <<yielded, read_idx>>
    /\ pc' = [pc EXCEPT ![s] = "check"]
    /\ UNCHANGED <<command, command_type, status, output, pid, pidLock,
                   statusLock, outputLock, pidChan, tx_pid, rx_pid, chan,
                   tx_output, tx_output_err, rx_output, rec, execResult,
                   errResult, cmdResult, proc, exitStatus, pipe, written,
                   readChunks, knownPid, killed, started>>
    /\ UNCHANGED <<runs, sendFailed>>

\* jobs.rs:123  let o = self.output.lock().await;
DrainLock(s) ==
    /\ pc[s] = "drain_lock"
    /\ outputLock = "none"
    /\ outputLock' = s
    /\ pc' = [pc EXCEPT ![s] = "drain"]
    /\ UNCHANGED <<command, command_type, status, output, pid, pidLock,
                   statusLock, pidChan, tx_pid, rx_pid, chan, tx_output,
                   tx_output_err, rx_output, rec, execResult, errResult,
                   cmdResult, proc, exitStatus, pipe, written, readChunks,
                   knownPid, killed, read_idx, yielded, started>>
    /\ UNCHANGED <<runs, sendFailed>>

\* jobs.rs:124-127, one iteration of the final loop, the output lock held.
DrainStep(s) ==
    /\ pc[s] = "drain"
    /\ HasUnread(output, read_idx[s])
    /\ yielded' = [yielded EXCEPT
                      ![s] = Append(@, ByteAt(output, read_idx[s]))]
    /\ read_idx' = [read_idx EXCEPT ![s] = @ + 1]
    /\ UNCHANGED <<command, command_type, status, output, pid, pidLock,
                   statusLock, outputLock, pc, pidChan, tx_pid, rx_pid, chan,
                   tx_output, tx_output_err, rx_output, rec, execResult,
                   errResult, cmdResult, proc, exitStatus, pipe, written,
                   readChunks, knownPid, killed, started>>
    /\ UNCHANGED <<runs, sendFailed>>

\* jobs.rs:124,128: the final loop ends, the guard is dropped and
\* stream_output returns.
DrainEnd(s) ==
    /\ pc[s] = "drain"
    /\ ~HasUnread(output, read_idx[s])
    /\ outputLock' = "none"
    /\ pc' = [pc EXCEPT ![s] = "done"]
    /\ UNCHANGED <<command, command_type, status, output, pid, pidLock,
                   statusLock, pidChan, tx_pid, rx_pid, chan, tx_output,
                   tx_output_err, rx_output, rec, execResult, errResult,
                   cmdResult, proc, exitStatus, pipe, written, readChunks,
                   knownPid, killed, read_idx, yielded, started>>
    /\ UNCHANGED <<runs, sendFailed>>

\* -------------------------------------------------------- specification

\* One step of new_command.
JobStep ==
    \/ NewCommand
    \/ LockPid
    \/ RecvPid
    \/ SetRunning
    \/ RecvOutput
    \/ PushOutput
    \/ JoinAndFinish

\* One step of execute_command or of its stderr task.
ExecStep ==
    \/ Spawn
    \/ SendPid
    \/ SetupReaders
    \/ ReadStdout
    \/ ReadStderr
    \/ AwaitStderr
    \/ Wait

\* One step of the process.
ProcStep ==
    \/ \E s \in Streams : ProcWrite(s)
    \/ \E c \in ExitCodes : ProcExit(c)

\* One step of the caller that kills the job.
KillStep ==
    \/ ReadPid
    \/ Kill9

\* One step of the stream_output call s.
StreamStep(s) ==
    \/ StreamStart(s)
    \/ CheckStatus(s)
    \/ PollOutput(s)
    \/ DrainLock(s)
    \/ DrainStep(s)
    \/ DrainEnd(s)

\* new_command, one stream_output call and the caller that kills the job.
Next ==
    \/ JobStep
    \/ ExecStep
    \/ ProcStep
    \/ KillStep
    \/ StreamStep("s1")

\* new_command and every stream_output call of Streamers; no signal is sent.
NextStreams ==
    \/ JobStep
    \/ ExecStep
    \/ ProcStep
    \/ \E s \in Streamers : StreamStep(s)

\* new_command is called with CommandType::Start.
InitStart == Init /\ command_type = "Start"

\* A Start run, a stream_output call and a caller that may kill the job.
Spec == InitStart /\ [][Next]_vars

\* A Start run under concurrent stream_output calls.
SpecStreams == InitStart /\ [][NextStreams]_vars

\* new_command is called with Stop, Stream or Status.
InitOther == Init /\ command_type # "Start"

\* new_command past the `if let` of jobs.rs:63, the executor, the process.
NextOther ==
    \/ NewCommand
    \/ RecvOutput
    \/ PushOutput
    \/ JoinAndFinish
    \/ ExecStep
    \/ ProcStep

\* A run of new_command whose command type is not Start.
SpecOther == InitOther /\ [][NextOther]_vars

\* A Start run and a stream_output call, where the caller may give up the
\* new_command future while it waits for the output lock.
NextAbort ==
    \/ JobStep
    \/ ExecStep
    \/ ProcStep
    \/ StreamStep("s1")
    \/ DropNewCommand

SpecAbort == InitStart /\ [][NextAbort]_vars

\* A Start run whose executor may fail once the pid is sent.
NextFault ==
    \/ JobStep
    \/ ExecStep
    \/ ProcStep
    \/ SetupFails
    \/ WaitFails

SpecFault == InitStart /\ [][NextFault]_vars

\* Two Start runs on one Job, the second called when the first is over.
NextRerun ==
    \/ JobStep
    \/ ExecStep
    \/ ProcStep
    \/ NewCommandAgain

SpecRerun == InitStart /\ [][NextRerun]_vars

\* Spec under fair scheduling: the tokio runtime and the OS keep running
\* new_command, execute_command and the stderr task whenever they can take
\* a step, and a stream_output call that holds the output lock runs on to
\* the end of its final loop (jobs.rs:123-128 has no await point under the
\* lock). Nothing is assumed of the process, of the caller that kills the
\* job, or of a stream_output call that holds no lock.
FairSpec ==
    /\ Spec
    /\ WF_vars(JobStep)
    /\ WF_vars(Spawn \/ SendPid \/ SetupReaders \/ ReadStdout
                     \/ AwaitStderr \/ Wait)
    /\ WF_vars(ReadStderr)
    /\ WF_vars(DrainStep("s1") \/ DrainEnd("s1"))

\* One step of the stream_output call s once it is under way.
StreamRun(s) ==
    \/ CheckStatus(s)
    \/ PollOutput(s)
    \/ DrainLock(s)
    \/ DrainStep(s)
    \/ DrainEnd(s)

\* Spec under fair scheduling of the stream_output call and fair granting
\* of the locks it asks for: once under way, the call is run whenever it can
\* take a step. Nothing is assumed of new_command, of the executor, of the
\* process or of the caller that kills the job.
FairStream ==
    /\ Spec
    /\ WF_vars(StreamRun("s1"))

\* ---------------------------------------------------------------- claims

\* The bytes of a sequence of chunks, in order.
RECURSIVE Flatten(_)
Flatten(cs) == IF cs = <<>> THEN <<>> ELSE Head(cs) \o Flatten(Tail(cs))

\* o is an interleaving of the chunk sequences a and b: every chunk of a
\* and of b appears whole, exactly once, and each sequence keeps its order.
RECURSIVE IsInterleaving(_, _, _)
IsInterleaving(o, a, b) ==
    IF a = <<>> /\ b = <<>>
    THEN o = <<>>
    ELSE \/ /\ a # <<>>
            /\ IsPrefix(Head(a), o)
            /\ IsInterleaving(Drop(o, Len(Head(a))), Tail(a), b)
         \/ /\ b # <<>>
            /\ IsPrefix(Head(b), o)
            /\ IsInterleaving(Drop(o, Len(Head(b))), a, Tail(b))

\* C1: in a Start run the status only ever steps from Unstarted to Running
\* and from Running to ExitCode(c) or Signaled(s): it never re-enters
\* Running, never goes from Unstarted straight to a terminal value, and
\* never changes once it is terminal.
C1_StatusTransitions ==
    [][status' # status =>
          \/ status = None /\ status' = Running
          \/ status = Running /\ IsTerminal(status')]_vars

\* A Start run that went through Running and returned Ok with a terminal
\* status.
C1_Witness ==
    /\ cmdResult = "Ok"
    /\ IsTerminal(status)
    /\ pid # <<>>

\* C2: once new_command(Start) has returned Ok, output is an interleaving of
\* the chunks read from stdout and the chunks read from stderr, each stream
\* in its own order, and the chunks read from a stream are exactly the
\* bytes the process wrote on it.
C2_OutputIsInterleaving ==
    cmdResult = "Ok" =>
        /\ IsInterleaving(output, readChunks["stdout"], readChunks["stderr"])
        /\ \A s \in Streams : Flatten(readChunks[s]) = written[s]

\* A successful run whose process wrote on both streams, stdout read in
\* two chunks with a stderr byte between them in the output.
C2_Witness ==
    /\ cmdResult = "Ok"
    /\ Len(readChunks["stdout"]) >= 2
    /\ Len(readChunks["stderr"]) >= 1
    /\ Len(output) >= 3
    /\ output[1] = ByteOf("stdout", 1)
    /\ output[2] = ByteOf("stderr", 1)

\* C3: for every stream_output call, at every point, the bytes it has
\* yielded are exactly output[0..read_idx], and read_idx is at most the
\* length of output.
C3_YieldedIsPrefix ==
    \A s \in Streamers :
        /\ read_idx[s] <= Len(output)
        /\ yielded[s] = Take(output, read_idx[s])

\* Two concurrent calls in their polling loops, at different offsets.
C3_Witness ==
    \E s, t \in Streamers :
        /\ pc[s] \in {"check", "poll"}
        /\ pc[t] \in {"check", "poll"}
        /\ 0 < read_idx[s]
        /\ read_idx[s] < read_idx[t]

\* C4: a stream_output call started after new_command(Start) was invoked
\* ends only once the status is terminal and it has yielded every byte of
\* the final output. (Every call of the model starts after the invocation.)
C4_StreamEndsAfterTerminal ==
    \A s \in Streamers :
        pc[s] = "done" => IsTerminal(status) /\ yielded[s] = output

\* C5: once the status is terminal nothing is appended to output: every
\* chunk the two read loops sent has been appended, nothing is queued or in
\* flight, and no sender is left to send more.
C5_NoAppendAfterTerminal ==
    /\ [](IsTerminal(status) =>
            /\ chan = <<>>
            /\ rec = <<>>
            /\ ~tx_output
            /\ ~tx_output_err
            /\ Len(output) = Len(Flatten(readChunks["stdout"]))
                               + Len(Flatten(readChunks["stderr"])))
    /\ [][IsTerminal(status) => output' = output]_vars

\* The status is terminal, output holds bytes of both streams, and a
\* stream_output call is still reading it.
C5_Witness ==
    /\ IsTerminal(status)
    /\ Len(output) >= 2
    /\ readChunks["stderr"] # <<>>
    /\ pc["s1"] \in {"check", "poll", "drain_lock", "drain"}

\* C6: when new_command(Start) has returned Ok the process has exited and
\* the status is Signaled(s) if a signal s ended the process and
\* ExitCode(c) for its exit code c otherwise.
C6_OkMeansTerminal ==
    cmdResult = "Ok" =>
        /\ proc = "exited"
        /\ exitStatus[1] = "signal" => status = Signal(exitStatus[2])
        /\ exitStatus[1] = "code" => status = ExitCode(exitStatus[2])

\* new_command returned Ok for a process ended by signal 9.
C6_Witness ==
    /\ cmdResult = "Ok"
    /\ exitStatus = <<"signal", SIGKILL>>

\* C7: when the OS rejects the spawn, execute_command and
\* new_command(Start) return errors, and the Job keeps status Unstarted, no
\* pid and an empty output in every state.
C7_BadCommandLeavesJobUnstarted ==
    command = "bad" =>
        /\ status = None
        /\ pid = <<>>
        /\ output = <<>>
        /\ execResult[1] # "Ok"
        /\ cmdResult # "Ok"
        /\ pc["exec"] = "done" => execResult = <<"Err">>
        /\ pc["cmd"] = "done" => cmdResult = "Err"

\* The spawn was rejected, new_command has returned its error and a
\* stream_output call has run to its end on the Job.
C7_Witness ==
    /\ command = "bad"
    /\ execResult = <<"Err">>
    /\ cmdResult = "Err"
    /\ pc["s1"] = "done"

\* C8: once signal 9 has been delivered to the live process of a Job (whose
\* pid the caller read after the status became Running), the status
\* eventually becomes Signaled(9), and it never becomes an ExitCode.
C8_KillYieldsSignaled ==
    /\ killed ~> status = Signal(SIGKILL)
    /\ [](killed => status[1] # "ExitCode")

\* Signal 9 was delivered while the status was Running and output was
\* still going to arrive.
C8_Witness ==
    /\ killed
    /\ status = Running
    /\ pipe["stdout"] # <<>>

\* C9: a stream_output call started on a Job whose status is already
\* terminal never enters the polling loop, can always take its next step
\* unless another call is in its final loop under the output lock, and
\* ends having yielded exactly the whole output; two such calls yield the
\* same bytes.
C9_TerminalStreamReadsAll ==
    /\ \A s \in Streamers :
           IsTerminal(started[s]) =>
               /\ pc[s] # "poll"
               /\ pc[s] = "done" => yielded[s] = output
               /\ pc[s] # "done" =>
                      \/ ENABLED StreamStep(s)
                      \/ outputLock \in Streamers \ {s}
    /\ \A s, t \in Streamers :
           (/\ IsTerminal(started[s])
            /\ IsTerminal(started[t])
            /\ pc[s] = "done"
            /\ pc[t] = "done") => yielded[s] = yielded[t]

\* Two calls started after the status became terminal have both ended, on
\* an output of several bytes.
C9_Witness ==
    \E s, t \in Streamers :
        /\ s # t
        /\ IsTerminal(started[s])
        /\ IsTerminal(started[t])
        /\ pc[s] = "done"
        /\ pc[t] = "done"
        /\ Len(output) >= 2

\* C10: output is append-only: every step leaves the old output as a prefix
\* of the new one.
C10_OutputAppendOnly == [][IsPrefix(output, output')]_vars

\* Output has grown by several pushes while a stream_output call had
\* already read part of it.
C10_Witness ==
    /\ Len(output) >= 3
    /\ Len(readChunks["stdout"]) + Len(readChunks["stderr"]) >= 3
    /\ 0 < read_idx["s1"]
    /\ read_idx["s1"] < Len(output)

\* C11: a second new_command(Start) on a Job whose status is past Unstarted
\* is rejected with an error and leaves status, pid and output as the first
\* run left them.
C11_SecondStartRejected ==
    [][runs' = 2 =>
          /\ status' = status
          /\ pid' = pid
          /\ output' = output
          /\ cmdResult' # "Ok"]_vars

\* C12: during a Start run pid and status change together for every other
\* task: whenever new_command does not hold the pid lock, pid is set exactly
\* when status is not Unstarted, and a set pid is the id reported by the
\* executor for a process that was spawned.
C12_PidAndStatusTogether ==
    /\ pidLock # "cmd" => (pid # <<>> <=> status # None)
    /\ pid # <<>> => pid = <<ProcId>> /\ proc # "none"
    /\ knownPid # <<>> => status # None

C12_Witness ==
    /\ pidLock = "none"
    /\ pid = <<ProcId>>
    /\ status = Running
    /\ knownPid = <<ProcId>>

\* C13: only Start triggers execution: new_command called with Stop, Stream
\* or Status spawns no process and leaves status, output and pid as they
\* were at construction.
C13_OnlyStartExecutes ==
    command_type # "Start" =>
        /\ proc = "none"
        /\ status = None
        /\ output = <<>>
        /\ pid = <<>>

\* C14: a failed send in either read loop of execute_command is surfaced:
\* execute_command never returns Ok with an exit status after a chunk of
\* stdout or of stderr failed to be sent.
C14_SendFailureSurfaced ==
    sendFailed # {} => execResult[1] # "Ok"

\* C15: when execute_command fails after the pid was reported, new_command
\* returns an error and writes no terminal status: the status is never
\* ExitCode or Signal, and it is Running once new_command has returned.
C15_ExecutorFailureLeavesRunning ==
    (execResult = <<"Err">> /\ proc # "none") =>
        /\ ~IsTerminal(status)
        /\ cmdResult # "Ok"
        /\ pc["cmd"] = "done" => (cmdResult = "Err" /\ status = Running)

C15_Witness ==
    /\ execResult = <<"Err">>
    /\ proc = "exited"
    /\ pc["cmd"] = "done"
    /\ cmdResult = "Err"
    /\ status = Running
    /\ pid = <<ProcId>>

C17_StreamsTerminate ==
    (pc["s1"] \notin {"idle", "done"} /\ IsTerminal(status)) ~> pc["s1"] = "done"

\* The call was polling when the status became terminal and has ended
\* after reading the whole output.
C17_Witness ==
    /\ IsTerminal(status)
    /\ started["s1"] = Running
    /\ pc["s1"] = "done"
    /\ yielded["s1"] = output
    /\ output # <<>>

\* C18: stream_output only reads the Job: no step of a stream_output call
\* changes status, output or pid, and every step that changes one of them is
\* a step of new_command.
C18_StreamOnlyReads ==
    [][/\ (\E s \in Streamers : StreamStep(s)) =>
              UNCHANGED <<status, output, pid>>
       /\ ~UNCHANGED <<status, output, pid>> => JobStep]_vars

\* A stream_output call that started while the job was running has ended,
\* the three fields having been written while it ran.
C18_Witness ==
    /\ pc["s2"] = "done"
    /\ started["s2"] = Running
    /\ IsTerminal(status)
    /\ pid = <<ProcId>>
    /\ Len(output) >= 2
    /\ Len(yielded["s2"]) >= 2

\* C19: a Start run, a stream_output call and a pid reader never deadlock on
\* the locks. The pid lock is held by new_command only from its request to
\* the end of the `if let` block, and then new_command can go on or the
\* executor has yet to report the pid or fail; the status lock is never held
\* from one step to the next; the output lock is held across steps only by
\* a call in its final loop, which can always go on; a call holds at most
\* one lock. Under fair scheduling the pid lock is given back.
C19_NoLockDeadlock ==
    /\ [](pidLock = "cmd" =>
            /\ pc["cmd"] \in {"recv_pid", "lock_status"}
            /\ \/ ENABLED (RecvPid \/ SetRunning)
               \/ pc["exec"] \in {"spawn", "send_pid"} /\ ENABLED ExecStep)
    /\ [](statusLock = "none")
    /\ [](\A s \in Streamers :
            outputLock = s =>
                pc[s] = "drain" /\ ENABLED (DrainStep(s) \/ DrainEnd(s)))
    /\ [](outputLock \in Streamers \cup {"none"})
    /\ (pidLock = "cmd") ~> (pidLock = "none")

\* new_command waits for the output lock, held by the stream_output call in
\* its final loop, after the pid reader was granted the pid lock.
C19_Witness ==
    /\ pc["cmd"] = "push"
    /\ outputLock = "s1"
    /\ knownPid = <<ProcId>>

====
